---- MODULE Spec2Model ----
(***************************************************************************)
(* Model of attention.py: TemporalAxialAttention and SpatialAxialAttention *)
(* (constructor and __call__, one step per statement group) and the helper *)
(* tinygrad_meshgrid.                                                      *)
(*                                                                         *)
(* A tensor of the attention path is a record                              *)
(*   [shape, dtype, el] where el maps every index tuple (0-based) to       *)
(*   [slot |-> the (b,t,h,w,c) index the element was taken from,           *)
(*    deps |-> the set of input locations <<b,t,h,w>> whose values the     *)
(*             element is computed from].                                  *)
(* An output element is unchanged by a change of the input at a location   *)
(* outside its deps.                                                       *)
(***************************************************************************)
EXTENDS Integers, Sequences, FiniteSets

VARIABLES
    cls,            \* "Temporal" or "Spatial": the class of the instance
    dim,            \* constructor argument dim
    heads,          \* self.heads
    head_dim,       \* self.head_dim
    is_causal,      \* self.is_causal (Temporal only; FALSE for Spatial)
    rotary_emb,     \* TRUE iff a rotary embedding reference was supplied
    pos_embedding,  \* self.time_pos_embedding / self.space_pos_embedding: "None" or "list"
    pc,             \* position of the call
    xshape,         \* x.shape of the argument of the call
    xdtype,         \* x.dtype of the argument of the call
    x,              \* local x
    q, k, v,        \* locals q, k, v
    out,            \* the returned tensor
    executed,       \* the steps the call has executed so far
    err,            \* the exception the call raised, or "none"
    attn_causal,    \* the is_causal arguments handed to the attention primitive (a set)
    tensors,        \* tinygrad_meshgrid: *tensors
    indexing,       \* tinygrad_meshgrid: indexing
    grids,          \* tinygrad_meshgrid: grids
    mi,             \* tinygrad_meshgrid: loop index i
    mpc             \* tinygrad_meshgrid: position

avars == <<cls, dim, heads, head_dim, is_causal, rotary_emb, pos_embedding,
           pc, xshape, xdtype, x, q, k, v, out, executed, err, attn_causal>>
mvars == <<tensors, indexing, grids, mi, mpc>>
vars == <<avars, mvars>>

(* ------------------------------ bounds -------------------------------- *)
MaxB == 1
MaxT == 2
MaxH == 2
MaxW == 2
MaxDim == 2
MaxHeads == 2
MaxDimHead == 2
MaxLen == 3
MaxVal == 2

(* ------------------------------ dtypes -------------------------------- *)
\* floating point element types, by width
DTypes == {"half", "float", "double"}

Width(d) == CASE d = "half" -> 1 [] d = "float" -> 2 [] d = "double" -> 3

\* tinygrad's promotion of a binary operation on two float tensors
least_upper_dtype(d1, d2) == IF Width(d1) >= Width(d2) THEN d1 ELSE d2

\* the dtype nn.Linear creates its weight and bias in (tinygrad's default float)
param_dtype == "float"

(* ------------------------------ tensors ------------------------------- *)
NoTensor == [shape |-> <<>>, dtype |-> "none", el |-> <<>>]

Idx4(s) == {<<a, b, c, d>> : a \in 0..(s[1]-1), b \in 0..(s[2]-1),
                             c \in 0..(s[3]-1), d \in 0..(s[4]-1)}

Idx5(s) == {<<a, b, c, d, e>> : a \in 0..(s[1]-1), b \in 0..(s[2]-1),
                                c \in 0..(s[3]-1), d \in 0..(s[4]-1),
                                e \in 0..(s[5]-1)}

\* the argument of a call: a volume of the given shape and dtype
Volume(shape, dtype) ==
    [shape |-> shape, dtype |-> dtype,
     el |-> [i \in Idx5(shape) |->
                [slot |-> i, deps |-> {<<i[1], i[2], i[3], i[4]>>}]]]

B == xshape[1]
T == xshape[2]
H == xshape[3]
W == xshape[4]
D == xshape[5]

inner_dim == head_dim * heads

\* the deps of the whole last-axis row an element lies in
Row(t, i) ==
    LET n == Len(t.shape)
    IN  UNION {t.el[[i EXCEPT ![n] = c]].deps : c \in 0..(t.shape[n]-1)}

\* nn.Linear(in, out_features): every output channel is a combination of the
\* channels of the same location; the result has the promoted dtype
Linear(t, out_features, pdtype) ==
    LET s == [t.shape EXCEPT ![5] = out_features]
    IN  [shape |-> s, dtype |-> least_upper_dtype(t.dtype, pdtype),
         el |-> [i \in Idx5(s) |-> [slot |-> i, deps |-> Row(t, i)]]]

\* .chunk(3, dim=-1)[j]
chunk(t, j) ==
    LET n == t.shape[5] \div 3
        s == [t.shape EXCEPT ![5] = n]
    IN  [shape |-> s, dtype |-> t.dtype,
         el |-> [i \in Idx5(s) |->
                    [slot |-> i, deps |-> t.el[[i EXCEPT ![5] = j * n + i[5]]].deps]]]


\* .cast(dtype)
cast(t, dtype) == [t EXCEPT !.dtype = dtype]

(* ----------------------- einops.rearrange patterns --------------------- *)
\* "B T H W (h d) -> (B H W) h T d", h=self.heads
T_rearrange(t) ==
    LET s == <<B * H * W, heads, T, head_dim>>
    IN  [shape |-> s, dtype |-> t.dtype,
         el |-> [i \in Idx4(s) |->
                    t.el[<<i[1] \div (H * W), i[3], (i[1] \div W) % H, i[1] % W,
                           i[2] * head_dim + i[4]>>]]]

\* the pattern with the group axes composed in the order (B W H)
T_rearrange_back_BWH(t) ==
    LET s == <<B, T, H, W, heads * head_dim>>
    IN  [shape |-> s, dtype |-> t.dtype,
         el |-> [i \in Idx5(s) |->
                    t.el[<<(i[1] * W + i[4]) * H + i[3], i[5] \div head_dim, i[2],
                           i[5] % head_dim>>]]]

\* "(B H W) h T d -> B T H W (h d)", B=B, H=H, W=W
T_rearrange_back(t) ==
    LET s == <<B, T, H, W, heads * head_dim>>
    IN  [shape |-> s, dtype |-> t.dtype,
         el |-> [i \in Idx5(s) |->
                    t.el[<<(i[1] * H + i[3]) * W + i[4], i[5] \div head_dim, i[2],
                           i[5] % head_dim>>]]]

\* "B T H W (h d) -> (B T) h H W d", h=self.heads
S_rearrange(t) ==
    LET s == <<B * T, heads, H, W, head_dim>>
    IN  [shape |-> s, dtype |-> t.dtype,
         el |-> [i \in Idx5(s) |->
                    t.el[<<i[1] \div T, i[1] % T, i[3], i[4],
                           i[2] * head_dim + i[5]>>]]]

\* "(B T) h H W d -> (B T) h (H W) d", B=B, T=T, h=self.heads
S_flatten(t) ==
    LET s == <<B * T, heads, H * W, head_dim>>
    IN  [shape |-> s, dtype |-> t.dtype,
         el |-> [i \in Idx4(s) |->
                    t.el[<<i[1], i[2], i[3] \div W, i[3] % W, i[4]>>]]]

\* "(B T) h (H W) d -> B T H W (h d)", B=B, H=H, W=W
S_rearrange_back(t) ==
    LET s == <<B, T, H, W, heads * head_dim>>
    IN  [shape |-> s, dtype |-> t.dtype,
         el |-> [i \in Idx5(s) |->
                    t.el[<<i[1] * T + i[2], i[5] \div head_dim, i[3] * W + i[4],
                           i[5] % head_dim>>]]]

(* --------------------------- collaborators ----------------------------- *)
\* rotary rotation of queries or keys: same shape and dtype, every element a
\* function of its own position and of its own last-axis row
rotate(t) ==
    [t EXCEPT !.el = [i \in DOMAIN t.el |->
                         [slot |-> t.el[i].slot, deps |-> Row(t, i)]]]

\* the key positions query position s attends to, of n positions
Attended(s, n, causal) == {j \in 0..(n-1) : (~causal) \/ j <= s}

\* Tensor.scaled_dot_product_attention(key, value, is_causal) on
\* (batch, heads, sequence, head_dim); rdtype is the dtype of the result
scaled_dot_product_attention(query, key, value, causal, rdtype) ==
    [shape |-> query.shape, dtype |-> rdtype,
     el |-> [i \in Idx4(query.shape) |->
                [slot |-> query.el[i].slot,
                 deps |-> Row(query, i) \cup
                          UNION {Row(key, [i EXCEPT ![3] = j]) \cup
                                 value.el[[i EXCEPT ![3] = j]].deps :
                                 j \in Attended(i[3], query.shape[3], causal)}]]]

\* the dtypes the attention primitive may compute its result in
AttentionDTypes(query, key, value) ==
    LET d == least_upper_dtype(query.dtype, least_upper_dtype(key.dtype, value.dtype))
    IN  {r \in DTypes : Width(r) >= Width(d)}

(* ------------------------------ inputs --------------------------------- *)
Shapes5 == {<<b, t, hh, ww, d>> : b \in 1..MaxB, t \in 1..MaxT, hh \in 1..MaxH,
                                  ww \in 1..MaxW, d \in 1..MaxDim}

\* shapes of rank 4, 5 and 6
Shapes == Shapes5 \cup {SubSeq(s, 1, 4) : s \in Shapes5}
                  \cup {Append(s, 1) : s \in Shapes5}

\* the arguments of a call: the shape varies over the volumes of the default
\* float dtype, the dtype over the volumes of a single location
Inputs == {in \in Shapes \X DTypes :
              \/ in[2] = "float"
              \/ \A n \in 1..4 : n <= Len(in[1]) => in[1][n] = 1}

(* ---------------------------- constructors ----------------------------- *)
NoCall ==
    /\ pc = "idle"
    /\ xshape = <<>>
    /\ xdtype = "none"
    /\ x = NoTensor
    /\ q = NoTensor
    /\ k = NoTensor
    /\ v = NoTensor
    /\ out = NoTensor
    /\ executed = <<>>
    /\ err = "none"
    /\ attn_causal = {}

\* a constructor that builds the absolute encoder whatever rotary_emb is
TemporalInit_always_absolute(d, h, dh, causal, rot) ==
    /\ cls = "Temporal"
    /\ dim = d
    /\ heads = h
    /\ head_dim = dh
    /\ rotary_emb = rot
    /\ pos_embedding = "list"
    /\ is_causal = causal

\* TemporalAxialAttention.__init__
TemporalInit(d, h, dh, causal, rot) ==
    /\ cls = "Temporal"
    /\ dim = d
    /\ heads = h
    /\ head_dim = dh
    /\ rotary_emb = rot
    /\ pos_embedding = IF rot THEN "None" ELSE "list"
    /\ is_causal = causal

\* SpatialAxialAttention.__init__
SpatialInit(d, h, dh, rot) ==
    /\ cls = "Spatial"
    /\ dim = d
    /\ heads = h
    /\ head_dim = dh
    /\ rotary_emb = rot
    /\ pos_embedding = IF rot THEN "None" ELSE "list"
    /\ is_causal = FALSE

NoMeshgrid ==
    /\ tensors = <<>>
    /\ indexing = "ij"
    /\ grids = <<>>
    /\ mi = 0
    /\ mpc = "idle"

Init ==
    /\ \E d \in 1..MaxDim, h \in 1..MaxHeads, dh \in 1..MaxDimHead,
          rot \in BOOLEAN :
          \/ \E causal \in BOOLEAN : TemporalInit(d, h, dh, causal, rot)
          \/ SpatialInit(d, h, dh, rot)
    /\ NoCall
    /\ NoMeshgrid

(* ------------------------------ __call__ ------------------------------- *)
self == <<cls, dim, heads, head_dim, is_causal, rotary_emb, pos_embedding>>

Raise(e) ==
    /\ pc' = "raised"
    /\ err' = e
    /\ out' = NoTensor

\* B, T, H, W, D = x.shape
Unpack(xs, xd) ==
    /\ pc = "idle"
    /\ xshape' = xs
    /\ xdtype' = xd
    /\ IF Len(xs) # 5
         THEN /\ Raise("ValueError")
              /\ x' = NoTensor
         ELSE /\ pc' = "pos"
              /\ x' = Volume(xs, xd)
              /\ UNCHANGED <<err, out>>
    /\ UNCHANGED <<self, q, k, v, executed, attn_causal, mvars>>

T_Call(xs, xd) == cls = "Temporal" /\ Unpack(xs, xd)

S_Call(xs, xd) == cls = "Spatial" /\ Unpack(xs, xd)

\* if self.time_pos_embedding is not None: self.time_pos_embedding(Tensor.arange(T))
\* calls a list
T_PosEmbedding ==
    /\ cls = "Temporal"
    /\ pc = "pos"
    /\ IF pos_embedding # "None"
         THEN /\ executed' = Append(executed, "pos_emb")
              /\ Raise("TypeError")
         ELSE /\ pc' = "qkv"
              /\ UNCHANGED <<executed, err, out>>
    /\ UNCHANGED <<self, xshape, xdtype, x, q, k, v, attn_causal, mvars>>

\* if self.space_pos_embedding is not None: h_steps, w_steps are built, then the
\* name tinygrad_meshgrid is looked up: it is bound in the class body only
S_PosEmbedding ==
    /\ cls = "Spatial"
    /\ pc = "pos"
    /\ IF pos_embedding # "None"
         THEN /\ executed' = Append(executed, "pos_emb")
              /\ Raise("NameError")
         ELSE /\ pc' = "qkv"
              /\ UNCHANGED <<executed, err, out>>
    /\ UNCHANGED <<self, xshape, xdtype, x, q, k, v, attn_causal, mvars>>

\* q, k, v = self.to_qkv(x).chunk(3, dim=-1)
ToQkv ==
    /\ pc = "qkv"
    /\ IF D # dim
         THEN /\ Raise("MatmulShapeError")
              /\ UNCHANGED <<q, k, v, executed>>
         ELSE LET p == Linear(x, inner_dim * 3, param_dtype)
              IN  /\ q' = chunk(p, 0)
                  /\ k' = chunk(p, 1)
                  /\ v' = chunk(p, 2)
                  /\ executed' = Append(executed, "to_qkv")
                  /\ pc' = "rearrange"
                  /\ UNCHANGED <<err, out>>
    /\ UNCHANGED <<self, xshape, xdtype, x, attn_causal, mvars>>

T_ToQkv == cls = "Temporal" /\ ToQkv

S_ToQkv == cls = "Spatial" /\ ToQkv

T_Rearrange ==
    /\ cls = "Temporal"
    /\ pc = "rearrange"
    /\ q' = T_rearrange(q)
    /\ k' = T_rearrange(k)
    /\ v' = T_rearrange(v)
    /\ executed' = Append(executed, "rearrange")
    /\ pc' = "rotary"
    /\ UNCHANGED <<self, xshape, xdtype, x, out, err, attn_causal, mvars>>

S_Rearrange ==
    /\ cls = "Spatial"
    /\ pc = "rearrange"
    /\ q' = S_rearrange(q)
    /\ k' = S_rearrange(k)
    /\ v' = S_rearrange(v)
    /\ executed' = Append(executed, "rearrange")
    /\ pc' = "rotary"
    /\ UNCHANGED <<self, xshape, xdtype, x, out, err, attn_causal, mvars>>

\* if self.rotary_emb is not None: rotate q and k
Rotary(next) ==
    /\ pc = "rotary"
    /\ IF rotary_emb
         THEN /\ q' = rotate(q)
              /\ k' = rotate(k)
              /\ executed' = Append(executed, "rotary")
         ELSE UNCHANGED <<q, k, executed>>
    /\ pc' = next
    /\ UNCHANGED <<self, xshape, xdtype, x, v, out, err, attn_causal, mvars>>

T_Rotary == cls = "Temporal" /\ Rotary("attn")

S_Rotary == cls = "Spatial" /\ Rotary("flatten")

S_Flatten ==
    /\ cls = "Spatial"
    /\ pc = "flatten"
    /\ q' = S_flatten(q)
    /\ k' = S_flatten(k)
    /\ v' = S_flatten(v)
    /\ executed' = Append(executed, "flatten")
    /\ pc' = "attn"
    /\ UNCHANGED <<self, xshape, xdtype, x, out, err, attn_causal, mvars>>

\* an attention call that leaves is_causal at its default
T_is_causal_arg_default == FALSE

\* is_causal=self.is_causal
T_is_causal_arg == is_causal

\* a spatial attention call that is causal
S_is_causal_arg_true == TRUE

\* is_causal=False
S_is_causal_arg == FALSE

Attention(causal) ==
    /\ pc = "attn"
    /\ \E r \in AttentionDTypes(q, k, v) :
          x' = scaled_dot_product_attention(q, k, v, causal, r)
    /\ attn_causal' = {causal}
    /\ executed' = Append(executed, "attention")
    /\ pc' = "back"
    /\ UNCHANGED <<self, xshape, xdtype, q, k, v, out, err, mvars>>

T_Attention == cls = "Temporal" /\ Attention(T_is_causal_arg)

S_Attention == cls = "Spatial" /\ Attention(S_is_causal_arg)

\* no cast: x keeps the dtype the attention primitive returned
cast_dtype_of_x == x.dtype

\* the dtype of x.cast(dtype=q.dtype)
cast_dtype == q.dtype

\* x = rearrange(x, ...); x = x.cast(dtype=q.dtype)
T_RearrangeBack ==
    /\ cls = "Temporal"
    /\ pc = "back"
    /\ x' = cast(T_rearrange_back(x), cast_dtype)
    /\ executed' = Append(executed, "rearrange_back")
    /\ pc' = "proj"
    /\ UNCHANGED <<self, xshape, xdtype, q, k, v, out, err, attn_causal, mvars>>

S_RearrangeBack ==
    /\ cls = "Spatial"
    /\ pc = "back"
    /\ x' = cast(S_rearrange_back(x), cast_dtype)
    /\ executed' = Append(executed, "rearrange_back")
    /\ pc' = "proj"
    /\ UNCHANGED <<self, xshape, xdtype, q, k, v, out, err, attn_causal, mvars>>

\* x = self.to_out(x); return x
ToOut ==
    /\ pc = "proj"
    /\ out' = Linear(x, dim, param_dtype)
    /\ executed' = Append(executed, "to_out")
    /\ pc' = "done"
    /\ UNCHANGED <<self, xshape, xdtype, x, q, k, v, err, attn_causal, mvars>>

T_ToOut == cls = "Temporal" /\ ToOut

S_ToOut == cls = "Spatial" /\ ToOut

\* the call has returned or raised; the instance is called again
NextCall ==
    /\ pc \in {"done", "raised"}
    /\ pc' = "idle"
    /\ xshape' = <<>>
    /\ xdtype' = "none"
    /\ x' = NoTensor
    /\ q' = NoTensor
    /\ k' = NoTensor
    /\ v' = NoTensor
    /\ out' = NoTensor
    /\ executed' = <<>>
    /\ err' = "none"
    /\ attn_causal' = {}
    /\ UNCHANGED <<self, mvars>>

Next ==
    \/ \E in \in Inputs : T_Call(in[1], in[2])
    \/ \E in \in Inputs : S_Call(in[1], in[2])
    \/ T_PosEmbedding
    \/ S_PosEmbedding
    \/ T_ToQkv
    \/ S_ToQkv
    \/ T_Rearrange
    \/ S_Rearrange
    \/ T_Rotary
    \/ S_Rotary
    \/ S_Flatten
    \/ T_Attention
    \/ S_Attention
    \/ T_RearrangeBack
    \/ S_RearrangeBack
    \/ T_ToOut
    \/ S_ToOut
    \/ NextCall

Spec == Init /\ [][Next]_vars


(* -------------------------- tinygrad_meshgrid -------------------------- *)
\* An index tensor of the helper is [shape, data]: data holds the elements in
\* row-major order.
RECURSIVE Prod(_)
Prod(s) == IF s = <<>> THEN 1 ELSE s[1] * Prod(Tail(s))

\* the row-major offset of the index tuple idx in a tensor of shape s
RECURSIVE Ravel(_, _)
Ravel(idx, s) ==
    IF s = <<>> THEN 0
    ELSE idx[1] * Prod(Tail(s)) + Ravel(Tail(idx), Tail(s))

\* the index tuple of the row-major offset n in a tensor of shape s
RECURSIVE Unravel(_, _)
Unravel(n, s) ==
    IF s = <<>> THEN <<>>
    ELSE <<n \div Prod(Tail(s))>> \o Unravel(n % Prod(Tail(s)), Tail(s))

At(t, idx) == t.data[Ravel(idx, t.shape) + 1]

\* len(t)
len(t) == t.shape[1]

\* Tensor.reshape(*shape), one entry of shape may be -1
reshape(t, shape) ==
    LET known == Prod([n \in 1..Len(shape) |-> IF shape[n] = -1 THEN 1 ELSE shape[n]])
    IN  [shape |-> [n \in 1..Len(shape) |->
                       IF shape[n] = -1 THEN Prod(t.shape) \div known ELSE shape[n]],
         data |-> t.data]

\* Tensor.repeat(repeats)
repeat(t, repeats) ==
    LET s == [n \in 1..Len(t.shape) |-> t.shape[n] * repeats[n]]
    IN  [shape |-> s,
         data |-> [n \in 1..Prod(s) |->
                      LET idx == Unravel(n - 1, s)
                      IN  At(t, [m \in 1..Len(s) |-> idx[m] % t.shape[m]])]]

\* shape = [1] * len(tensors); shape[i] = -1          (i is 0-based)
mesh_shape(i) == [n \in 1..Len(tensors) |-> IF n = i + 1 THEN -1 ELSE 1]

\* repeat_shape without the assignment repeat_shape[i] = 1
repeat_shape_full(i) == [n \in 1..Len(tensors) |-> len(tensors[n])]

\* repeat_shape = list(len(t) for t in tensors); repeat_shape[i] = 1
repeat_shape(i) == [n \in 1..Len(tensors) |-> IF n = i + 1 THEN 1 ELSE len(tensors[n])]

\* the 1-D index tensors the helper is applied to
Seqs1D == UNION {[1..n -> 0..MaxVal] : n \in 1..MaxLen}

Tensor1D(d) == [shape |-> <<Len(d)>>, data |-> d]

\* a call tinygrad_meshgrid(a, b, indexing=ix)
MeshgridInit ==
    /\ \E a \in Seqs1D, b \in Seqs1D : tensors = <<Tensor1D(a), Tensor1D(b)>>
    /\ indexing \in {"ij", "xy"}
    /\ grids = <<>>
    /\ mi = 0
    /\ mpc = "loop"
    /\ SpatialInit(1, 1, 1, TRUE)
    /\ NoCall

\* one iteration of: for i, tensor in enumerate(tensors)
MeshgridLoop ==
    /\ mpc = "loop"
    /\ mi < Len(tensors)
    /\ grids' = Append(grids,
                       repeat(reshape(tensors[mi + 1], mesh_shape(mi)), repeat_shape(mi)))
    /\ mi' = mi + 1
    /\ UNCHANGED <<tensors, indexing, mpc, avars>>

\* if indexing == 'xy': swap grids[0] and grids[1]; return tuple(grids)
MeshgridReturn ==
    /\ mpc = "loop"
    /\ mi = Len(tensors)
    /\ grids' = IF indexing = "xy"
                  THEN [grids EXCEPT ![1] = grids[2], ![2] = grids[1]]
                  ELSE grids
    /\ mpc' = "done"
    /\ UNCHANGED <<tensors, indexing, mi, avars>>

MeshgridNext ==
    \/ MeshgridLoop
    \/ MeshgridReturn

MeshgridSpec == MeshgridInit /\ [][MeshgridNext]_vars


(* ------------------------------- claims -------------------------------- *)
Range(f) == {f[n] : n \in DOMAIN f}

WellFormed == Len(xshape) = 5 /\ xshape[5] = dim

Terminal == pc \in {"done", "raised"}

\* the input locations of the temporal group of the output index i
TemporalGroup(i) == {<<i[1], t, i[3], i[4]>> : t \in 0..(T-1)}

\* the input locations of the spatial group of the output index i
SpatialGroup(i) == {<<i[1], i[2], hh, ww>> : hh \in 0..(H-1), ww \in 0..(W-1)}

\* C1: a causal TemporalAxialAttention hands is_causal=self.is_causal to the
\* attention primitive, and the output at (b,t,h,w) of a call that returns is
\* computed from no input location of its group at a time step greater than t,
\* so changing the input there leaves it unchanged.
C1_CausalIgnoresLaterSteps ==
    cls = "Temporal" =>
        /\ attn_causal \subseteq {is_causal}
        /\ (is_causal /\ pc = "done") =>
              \A i \in DOMAIN out.el : \A p \in TemporalGroup(i) :
                  p[2] > i[2] => p \notin out.el[i].deps

\* a causal temporal call over two or more steps has returned, and its output at
\* the last step is computed from the first step
C1_Witness ==
    /\ cls = "Temporal" /\ is_causal /\ pc = "done" /\ T >= 2
    /\ attn_causal = {TRUE}
    /\ \E i \in DOMAIN out.el :
          i[2] = T - 1 /\ <<i[1], 0, i[3], i[4]>> \in out.el[i].deps

\* C2: the non-attended axes are independent groups: the output at (b,t,h,w)
\* is computed only from the input at (b,t',h,w) for TemporalAxialAttention
\* and at (b,t,h',w') for SpatialAxialAttention, and the rearrange back puts
\* every attended element at the location and channel its query was taken from.
C2_AxisIsolation ==
    /\ pc = "proj" => \A i \in DOMAIN x.el : x.el[i].slot = i
    /\ pc = "done" =>
          \A i \in DOMAIN out.el :
              out.el[i].deps \subseteq
                  (IF cls = "Temporal" THEN TemporalGroup(i) ELSE SpatialGroup(i))

\* a temporal call over several groups, heads and channels per head has
\* returned, the output computed from the whole group
C2_Witness ==
    /\ cls = "Temporal" /\ pc = "done" /\ ~is_causal
    /\ H >= 2 /\ W >= 2 /\ T >= 2 /\ heads >= 2 /\ head_dim >= 2
    /\ \A i \in DOMAIN out.el : out.el[i].deps = TemporalGroup(i)

\* C3: every call on a well-formed (B,T,H,W,D) input, rotary present or
\* absent, returns a tensor of shape (B,T,H,W,D).
C3_ShapePreserved ==
    (Terminal /\ WellFormed) => (pc = "done" /\ out.shape = xshape)

\* C4: a TemporalAxialAttention built without a rotary embedding evaluates its
\* absolute encoder on a well-formed input and completes the call.
C4_TemporalAbsoluteCompletes ==
    (cls = "Temporal" /\ ~rotary_emb /\ WellFormed /\ Terminal) =>
        (pc = "done" /\ err = "none" /\ "pos_emb" \in Range(executed))

\* C5: a SpatialAxialAttention built without a rotary embedding builds the
\* index grid with the meshgrid helper, evaluates its encoder on a well-formed
\* input and completes the call.
C5_SpatialAbsoluteCompletes ==
    (cls = "Spatial" /\ ~rotary_emb /\ WellFormed /\ Terminal) =>
        (pc = "done" /\ err = "none" /\ "pos_emb" \in Range(executed))

\* the exceptions that report a shape that does not fit
ShapeMismatch == {"ValueError", "MatmulShapeError"}

\* C6: a call on an input of rank other than 5, or of a trailing dimension
\* other than dim, fails with a shape mismatch before any step has been
\* executed, and produces no output.
C6_MalformedRejectedFirst ==
    (Terminal /\ ~WellFormed) =>
        /\ pc = "raised"
        /\ err \in ShapeMismatch
        /\ executed = <<>>
        /\ out = NoTensor

C8_MeshgridCorrect ==
    (mpc = "done" /\ indexing = "ij") =>
        /\ Len(grids) = 2
        /\ \A g \in 1..2 : grids[g].shape = <<len(tensors[1]), len(tensors[2])>>
        /\ \A g \in 1..2 : Len(grids[g].data) = len(tensors[1]) * len(tensors[2])
        /\ \A i \in 0..(len(tensors[1]) - 1), j \in 0..(len(tensors[2]) - 1) :
              /\ At(grids[1], <<i, j>>) = tensors[1].data[i + 1]
              /\ At(grids[2], <<i, j>>) = tensors[2].data[j + 1]

\* the helper has returned [[0,0],[1,1],[2,2]] and [[0,1],[0,1],[0,1]] for the
\* index sequences [0,3) and [0,2)
C8_Witness ==
    /\ mpc = "done" /\ indexing = "ij"
    /\ tensors = <<Tensor1D(<<0, 1, 2>>), Tensor1D(<<0, 1>>)>>
    /\ grids = <<[shape |-> <<3, 2>>, data |-> <<0, 0, 1, 1, 2, 2>>],
                 [shape |-> <<3, 2>>, data |-> <<0, 1, 0, 1, 0, 1>>]>>

\* C9: SpatialAxialAttention hands is_causal=False to the attention primitive
\* in every call, and every flattened position of the attention result is
\* computed from all H*W positions of its (b,t) group.
C9_SpatialNeverCausal ==
    cls = "Spatial" =>
        /\ attn_causal \subseteq {FALSE}
        /\ pc = "back" =>
              \A i \in DOMAIN x.el :
                  x.el[i].deps = SpatialGroup(<<i[1] \div T, i[1] % T>>)

\* the attention primitive has returned in a spatial call over several positions
C9_Witness ==
    /\ cls = "Spatial" /\ pc = "back" /\ attn_causal = {FALSE}
    /\ H >= 2 /\ W >= 2
    /\ \E i \in DOMAIN x.el : i[3] = 0 /\ <<i[1] \div T, i[1] % T, H - 1, W - 1>> \in x.el[i].deps

====
